---- MODULE Spec2Model ----
(***************************************************************************)
(* Model of the SCP line formatter (formatter/scp.formatter.js).           *)
(*                                                                         *)
(* A line is a sequence of characters; a character is a one-character      *)
(* string.  Every regular expression of the formatter is modelled by an    *)
(* operator that matches and rewrites as the JavaScript engine does        *)
(* (anchors, greedy runs, word boundaries, look-aheads, case-insensitive   *)
(* literals, first-match or global replacement).                           *)
(***************************************************************************)
EXTENDS Naturals, Sequences, FiniteSets

\* ------------------------------------------------------------------------
\* Characters
\* ------------------------------------------------------------------------

LowerLetters ==
  <<"a","b","c","d","e","f","g","h","i","j","k","l","m",
    "n","o","p","q","r","s","t","u","v","w","x","y","z">>

UpperLetters ==
  <<"A","B","C","D","E","F","G","H","I","J","K","L","M",
    "N","O","P","Q","R","S","T","U","V","W","X","Y","Z">>

Digits == {"0","1","2","3","4","5","6","7","8","9"}

LowerSet == {LowerLetters[k] : k \in 1..Len(LowerLetters)}

UpperSet == {UpperLetters[k] : k \in 1..Len(UpperLetters)}

\* The upper-case form of every lower-case letter.
UpperOf ==
  [c \in LowerSet |->
     UpperLetters[CHOOSE k \in 1..Len(LowerLetters) : LowerLetters[k] = c]]

\* String.prototype.toUpperCase on one ASCII character.
UpperChar(c) == IF c \in LowerSet THEN UpperOf[c] ELSE c

\* String.prototype.toUpperCase on a string.
toUpperCase(s) == [k \in 1..Len(s) |-> UpperChar(s[k])]

\* The regular expression class \s: the members the lines are written with.
WhiteSpace == {" ", "\t", "\f"}

\* The regular expression class [ \t].
BlankOrTab == {" ", "\t"}

\* The regular expression class \w.
WordChars == LowerSet \cup UpperSet \cup Digits \cup {"_"}

IsSpaceAt(s, p) == p \in 1..Len(s) /\ s[p] \in WhiteSpace

IsWordAt(s, p) == p \in 1..Len(s) /\ s[p] \in WordChars

\* The assertion \b at the gap before position p (p = Len(s)+1 is the end).
WordBoundary(s, p) == IsWordAt(s, p - 1) # IsWordAt(s, p)

\* s.substring(a-1, b) with 1-based inclusive bounds; empty when a > b.
Slice(s, a, b) == IF a > b THEN <<>> ELSE SubSeq(s, a, b)

\* A literal keyword kw matched at position p under the flag "i".
MatchLit(s, p, kw) ==
  /\ p >= 1
  /\ p + Len(kw) - 1 <= Len(s)
  /\ \A k \in 1..Len(kw) : UpperChar(s[p + k - 1]) = UpperChar(kw[k])

\* Length of the longest run of characters of class cls that starts at p.
RECURSIVE RunLen(_, _, _)
RunLen(s, p, cls) ==
  IF p > Len(s) \/ s[p] \notin cls THEN 0 ELSE 1 + RunLen(s, p + 1, cls)

\* Length of the longest run of characters NOT of class cls that starts at p.
RECURSIVE RunLenNot(_, _, _)
RunLenNot(s, p, cls) ==
  IF p > Len(s) \/ s[p] \in cls THEN 0 ELSE 1 + RunLenNot(s, p + 1, cls)

\* String.prototype.trimRight (trimEnd).
trimRight(s) ==
  LET keep == {q \in 1..Len(s) : s[q] \notin WhiteSpace}
  IN IF keep = {} THEN <<>>
     ELSE SubSeq(s, 1, CHOOSE q \in keep : \A r \in keep : r <= q)

\* String.prototype.trim.
trim(s) ==
  LET t == trimRight(s)
  IN Slice(t, RunLen(t, 1, WhiteSpace) + 1, Len(t))

\* String.prototype.startsWith.
startsWith(s, pre) ==
  /\ Len(pre) <= Len(s)
  /\ \A k \in 1..Len(pre) : s[k] = pre[k]


\* s with the characters at positions a..b upper-cased.
UpperRange(s, a, b) ==
  [k \in 1..Len(s) |-> IF a <= k /\ k <= b THEN UpperChar(s[k]) ELSE s[k]]

\* ------------------------------------------------------------------------
\* Keyword tables (formatter/constants.js)
\* ------------------------------------------------------------------------

\* The three tables below are required from ./constants; they hold the
\* tokens that the formatter's comments and the specification name.

\* Assignment keywords: "defname=" -> "DEFNAME=".
VarsKeywords == <<<<"d","e","f","n","a","m","e">>>>

\* Scoped prefixes: "tag.name=" -> "TAG.name=".
ScopedVarPrefixes == <<<<"t","a","g">>>>

\* Control keywords: BEGIN, END, IF, ENDIF, FOR, ENDFOR.
ControlKeywords ==
  <<<<"b","e","g","i","n">>,
    <<"e","n","d">>,
    <<"i","f">>,
    <<"e","n","d","i","f">>,
    <<"f","o","r">>,
    <<"e","n","d","f","o","r">>>>

\* The command list of formatCommandCalls.
commandKeywords ==
  <<<<"S","A","Y">>,
    <<"E","M","O","T","E">>,
    <<"S","Y","S","M","E","S","S","A","G","E">>,
    <<"D","I","A","L","O","G">>,
    <<"N","E","W","I","T","E","M">>,
    <<"E","Q","U","I","P">>,
    <<"U","N","E","Q","U","I","P">>,
    <<"G","O">>,
    <<"F","A","C","E">>,
    <<"F","O","L","L","O","W">>,
    <<"S","P","E","A","K">>,
    <<"B","O","U","N","C","E">>,
    <<"C","O","N","S","U","M","E">>,
    <<"R","E","M","O","V","E">>>>

\* ------------------------------------------------------------------------
\* Comment predicate
\* ------------------------------------------------------------------------

\* isCommentLine without the trim: line.startsWith("//")
isCommentLineUntrimmed(line) == startsWith(line, <<"/", "/">>)

\* isCommentLine answering false for every line: formatLine with no gate.
isCommentLineNever(line) == FALSE

\* line.trim().startsWith("//")
isCommentLine(line) == startsWith(trim(line), <<"/", "/">>)

\* ------------------------------------------------------------------------
\* Section headers:  /^\s*\[(\w+)(\s+.*)?\]\s*$/i
\* ------------------------------------------------------------------------

\* Position of the "[" : right after the leading \s* run.
SectionOpen(s) == RunLen(s, 1, WhiteSpace) + 1

\* Position of the last character of the (\w+) group: \w+ is greedy, and a
\* shorter run is followed by a word character, which neither (\s+.*)? nor
\* \] accepts, so only the longest run can match.
SectionTypeEnd(s) == SectionOpen(s) + RunLen(s, SectionOpen(s) + 1, WordChars)

\* Positions of a "]" that only \s* separates from the end of the line.
SectionCloses(s) ==
  {c \in 1..Len(s) : s[c] = "]" /\ \A q \in (c + 1)..Len(s) : s[q] \in WhiteSpace}

\* Position of the closing "]" of the match, 0 when the pattern does not match.
SectionClose(s) ==
  LET b == SectionOpen(s)
      e == SectionTypeEnd(s)
      cs == {c \in SectionCloses(s) :
               \/ c = e + 1                           \* group 2 did not take part
               \/ c >= e + 2 /\ IsSpaceAt(s, e + 1)}  \* group 2 = \s+.* up to c
  IN IF b > Len(s) \/ s[b] # "[" \/ e = b \/ cs = {} THEN 0
     ELSE CHOOSE c \in cs : TRUE

\* The replacement callback with a blank put between the type and the rest:
\* `[${sectionType.toUpperCase()} ${rest}]`
SectionReplacementSpaced(sectionType, rest) ==
  <<"[">> \o toUpperCase(sectionType) \o <<" ">> \o rest \o <<"]">>

\* The replacement callback: `[${sectionType.toUpperCase()}${rest}]`.
SectionReplacement(sectionType, rest) ==
  <<"[">> \o toUpperCase(sectionType) \o rest \o <<"]">>

formatSectionHeaders(sourceLine) ==
  LET c == SectionClose(sourceLine)
      b == SectionOpen(sourceLine)
      e == SectionTypeEnd(sourceLine)
  IN IF c = 0 THEN sourceLine
     ELSE SectionReplacement(Slice(sourceLine, b + 1, e), Slice(sourceLine, e + 1, c - 1))

\* ------------------------------------------------------------------------
\* Triggers:  /(\bon=@\w+\b[^\s/]*)(?!\S)/gi
\* ------------------------------------------------------------------------

TriggerHead == <<"o", "n", "=", "@">>

\* Last position of the match that starts at p, 0 when none starts there.
\* \w+ and [^\s/]* are greedy; a shorter \w+ fails the \b after it and a
\* shorter [^\s/]* is followed by a non-space, which (?!\S) refuses.
TriggerEnd(s, p) ==
  LET w == RunLen(s, p + Len(TriggerHead), WordChars)
      t == RunLenNot(s, p + Len(TriggerHead) + w, WhiteSpace \cup {"/"})
      e == p + Len(TriggerHead) + w + t - 1
  IN IF /\ MatchLit(s, p, TriggerHead)
        /\ WordBoundary(s, p)
        /\ w >= 1
        /\ WordBoundary(s, p + Len(TriggerHead) + w)
        /\ (e = Len(s) \/ s[e + 1] \in WhiteSpace)
     THEN e ELSE 0

\* String.prototype.replace with the flag "g": the matches are searched in
\* src from left to right, each search resuming after the previous match.
RECURSIVE TriggerScan(_, _, _)
TriggerScan(src, p, out) ==
  IF p > Len(src) THEN out
  ELSE LET e == TriggerEnd(src, p)
       IN IF e > 0 THEN TriggerScan(src, e + 1, UpperRange(out, p, e))
          ELSE TriggerScan(src, p + 1, out)

formatTriggers(sourceLine) == TriggerScan(sourceLine, 1, sourceLine)

\* ------------------------------------------------------------------------
\* Assignment keywords:  new RegExp(`^[ \\t]*${varKeyword}=`, "i")
\* ------------------------------------------------------------------------

\* One iteration of the loop with the "=" left out of the replacement:
\* `${varKeyword.toUpperCase()}`
AssignmentStepNoEquals(s, varKeyword) ==
  LET lead == RunLen(s, 1, BlankOrTab)
      pat == varKeyword \o <<"=">>
  IN IF MatchLit(s, lead + 1, pat)
     THEN toUpperCase(varKeyword) \o Slice(s, lead + Len(pat) + 1, Len(s))
     ELSE s

\* One iteration of the loop: the match is replaced by
\* `${varKeyword.toUpperCase()}=`, the rest of the line follows it.
AssignmentStep(s, varKeyword) ==
  LET lead == RunLen(s, 1, BlankOrTab)
      pat == varKeyword \o <<"=">>
  IN IF MatchLit(s, lead + 1, pat)
     THEN toUpperCase(varKeyword) \o <<"=">> \o Slice(s, lead + Len(pat) + 1, Len(s))
     ELSE s

RECURSIVE AssignmentLoop(_, _)
AssignmentLoop(s, k) ==
  IF k > Len(VarsKeywords) THEN s
  ELSE AssignmentLoop(AssignmentStep(s, VarsKeywords[k]), k + 1)

formatAssignmentKeywords(sourceLine) == AssignmentLoop(sourceLine, 1)

\* ------------------------------------------------------------------------
\* Scoped assignments:  new RegExp(`^(\\s*)(${prefix})(?=\\.|=)`, "i")
\* ------------------------------------------------------------------------

\* One iteration of the loop with the look-ahead (?=\.|=) left out.
ScopedStepNoLookahead(s, prefix) ==
  LET lead == RunLen(s, 1, WhiteSpace)
  IN IF MatchLit(s, lead + 1, prefix)
     THEN UpperRange(s, lead + 1, lead + Len(prefix))
     ELSE s

\* One iteration of the loop: whitespace + keyword.toUpperCase().
ScopedStep(s, prefix) ==
  LET lead == RunLen(s, 1, WhiteSpace)
      next == lead + Len(prefix) + 1
  IN IF /\ MatchLit(s, lead + 1, prefix)
        /\ next <= Len(s)
        /\ s[next] \in {".", "="}
     THEN UpperRange(s, lead + 1, lead + Len(prefix))
     ELSE s

RECURSIVE ScopedLoop(_, _)
ScopedLoop(s, k) ==
  IF k > Len(ScopedVarPrefixes) THEN s
  ELSE ScopedLoop(ScopedStep(s, ScopedVarPrefixes[k]), k + 1)

formatScopedAssignments(sourceLine) == ScopedLoop(sourceLine, 1)

\* ------------------------------------------------------------------------
\* Control keywords:  new RegExp(`^(\\s*)(${control})\\b`, "i")
\* ------------------------------------------------------------------------

\* One iteration of the loop with the \b after the keyword left out.
ControlStepNoBoundary(s, control) ==
  LET lead == RunLen(s, 1, WhiteSpace)
  IN IF MatchLit(s, lead + 1, control)
     THEN UpperRange(s, lead + 1, lead + Len(control))
     ELSE s

\* One iteration of the loop: whitespace + keyword.toUpperCase().
ControlStep(s, control) ==
  LET lead == RunLen(s, 1, WhiteSpace)
  IN IF /\ MatchLit(s, lead + 1, control)
        /\ WordBoundary(s, lead + Len(control) + 1)
     THEN UpperRange(s, lead + 1, lead + Len(control))
     ELSE s

RECURSIVE ControlLoop(_, _)
ControlLoop(s, k) ==
  IF k > Len(ControlKeywords) THEN s
  ELSE ControlLoop(ControlStep(s, ControlKeywords[k]), k + 1)

formatControlKeywords(sourceLine) == ControlLoop(sourceLine, 1)

\* ------------------------------------------------------------------------
\* Command calls:  new RegExp(`\\b(${func})\\b(?=\\s|\\(|$)`, "gi")
\* ------------------------------------------------------------------------

\* The positions where \b holds in front of a word character: func is made
\* of word characters, so the leading \b lets a match start nowhere else.
WordStarts(s) == {p \in 1..Len(s) : IsWordAt(s, p) /\ WordBoundary(s, p)}

\* The pattern of func with the look-ahead (?=\s|\(|$) left out.
CommandAtNoLookahead(s, p, func) ==
  /\ MatchLit(s, p, func)
  /\ WordBoundary(s, p)
  /\ WordBoundary(s, p + Len(func))

\* Does the pattern of func match at position p?
CommandAt(s, p, func) ==
  LET next == p + Len(func)
  IN /\ MatchLit(s, p, func)
     /\ WordBoundary(s, p)
     /\ WordBoundary(s, next)
     /\ (next > Len(s) \/ s[next] \in WhiteSpace \cup {"("})

\* The global replace of one keyword: every match becomes func.toUpperCase().
\* Two matches never overlap (each is a whole word), so the left-to-right
\* search of the flag "g" finds every position where the pattern matches.
CommandReplace(s, starts, func) ==
  LET ms == {p \in starts : CommandAt(s, p, func)}
  IN IF ms = {} THEN s
     ELSE [k \in 1..Len(s) |->
             IF \E p \in ms : p <= k /\ k < p + Len(func)
               THEN toUpperCase(func)[k - (CHOOSE p \in ms : p <= k /\ k < p + Len(func)) + 1]
               ELSE s[k]]

RECURSIVE CommandLoop(_, _, _)
CommandLoop(s, starts, k) ==
  IF k > Len(commandKeywords) THEN s
  ELSE CommandLoop(CommandReplace(s, starts, commandKeywords[k]), starts, k + 1)

formatCommandCalls(sourceLine) ==
  CommandLoop(sourceLine, WordStarts(sourceLine), 1)

\* ------------------------------------------------------------------------
\* The pipeline
\* ------------------------------------------------------------------------

formatLine(sourceLine) ==
  IF isCommentLine(sourceLine) THEN sourceLine
  ELSE formatCommandCalls(
         formatControlKeywords(
           formatAssignmentKeywords(
             formatScopedAssignments(
               formatTriggers(
                 formatSectionHeaders(sourceLine))))))


\* ------------------------------------------------------------------------
\* The earlier variant of the formatter: every rule but formatVars tests
\* for a comment itself.  Its patterns and replacements are, character for
\* character, those of the methods above.
\* ------------------------------------------------------------------------

\* The test the variant writes inline: line.trim().startsWith("//")
trimmedStartsWithComment(line) == startsWith(trim(line), <<"/", "/">>)

\* The control keywords under the name the variant imports them by.
Controls == ControlKeywords

formatSections(line) ==
  IF trimmedStartsWithComment(line) THEN line
  ELSE LET c == SectionClose(line)
           b == SectionOpen(line)
           e == SectionTypeEnd(line)
       IN IF c = 0 THEN line
          ELSE SectionReplacement(Slice(line, b + 1, e), Slice(line, e + 1, c - 1))

\* formatTriggers of the variant.
variantFormatTriggers(line) ==
  IF trimmedStartsWithComment(line) THEN line
  ELSE TriggerScan(line, 1, line)

\* The variant's loop over VarsKeywords; it has no comment test.
formatVars(line) == AssignmentLoop(line, 1)

formatScopedVars(line) ==
  IF trimmedStartsWithComment(line) THEN line
  ELSE ScopedLoop(line, 1)

\* The variant's loop over Controls.
formatControls(line) ==
  IF trimmedStartsWithComment(line) THEN line
  ELSE ControlLoop(line, 1)

formatFunctions(line) ==
  IF trimmedStartsWithComment(line) THEN line
  ELSE CommandLoop(line, WordStarts(line), 1)

\* formatLine of the variant.
variantFormatLine(line) ==
  IF ~trimmedStartsWithComment(line)
    THEN formatFunctions(
           formatControls(
             formatVars(
               formatScopedVars(
                 variantFormatTriggers(
                   formatSections(line))))))
    ELSE line

\* ------------------------------------------------------------------------
\* Inputs
\* ------------------------------------------------------------------------

\* The longest line handed to a formatter method, counted in tokens.
MaxTokens == 3

\* The longest document, counted in lines.
MaxLines == 2

\* The pieces a line is written with: white space, punctuation, letters of
\* both cases and keywords of every table.
Tokens ==
  { <<" ">>, <<"\t">>, <<"/">>, <<"/","/">>, <<"[">>, <<"]">>, <<"=">>,
    <<".">>, <<"(">>, <<"x">>,
    <<"o","n","=","@">>, <<"O","n","=","@","a">>,
    <<"d","e","f","N","a","m","e">>, <<"T","a","g">>, <<"e","n","d","I","f">>,
    <<"S","a","y">>, <<"[","I","t">> }

\* The concatenations of at most n tokens.
RECURSIVE LinesUpTo(_)
LinesUpTo(n) ==
  IF n = 0 THEN {<<>>}
  ELSE LET shorter == LinesUpTo(n - 1)
       IN shorter \cup {l \o tk : l \in shorter, tk \in Tokens}

Lines == LinesUpTo(MaxTokens)

\* The raw texts of the lines of a document, as the editor hands them over:
\* trailing white space is still there.
DocTexts ==
  { <<>>,
    <<" ">>,
    <<"S","a","y"," ","x"," "," ">>,
    <<" "," ","d","e","f","n","a","m","e","=","x">>,
    <<"/","/"," ","o","n","=","@","a"," ","\t">>,
    <<"[","I","t"," ","x","]"," ">>,
    <<"o","n","=","@","a">>,
    <<"T","A","G",".","x">>,
    <<"f","o","r">> }

\* vscode.TextLine: the object document.lineAt(i) returns.
TextLine(text) == [text |-> text]

\* The documents of at most n lines.
RECURSIVE DocsUpTo(_)
DocsUpTo(n) ==
  IF n = 0 THEN {<<>>}
  ELSE LET shorter == DocsUpTo(n - 1)
       IN shorter \cup {d \o <<TextLine(tx)>> : d \in shorter, tx \in DocTexts}

Documents == DocsUpTo(MaxLines)

\* The JavaScript value null as the text of a line: it is no string, a
\* string being a sequence of one-character strings.
null == <<"null">>

\* The documents of at most n lines, any of which may have no text.
RECURSIVE NullableDocsUpTo(_)
NullableDocsUpTo(n) ==
  IF n = 0 THEN {<<>>}
  ELSE LET shorter == NullableDocsUpTo(n - 1)
       IN shorter \cup
          {d \o <<TextLine(tx)>> : d \in shorter, tx \in DocTexts \cup {null}}

NullableDocuments == NullableDocsUpTo(MaxLines)

\* ------------------------------------------------------------------------
\* State
\* ------------------------------------------------------------------------

VARIABLES
  document,     \* the vscode.TextDocument being formatted: its lines
  pc,           \* where provideDocumentFormattingEdits stands
  i,            \* its loop counter
  textEdits,    \* the edits pushed so far, the returned array in the end
  sourceLine,   \* the argument of a direct call of a formatter method;
                \* inside formatLine, the parameter the rules reassign
  called,       \* the method called with it, "none" before the call
  returned,     \* what the direct call returned
  linePc,       \* where a stepwise run of formatLine stands
  input,        \* the line that run of formatLine was called with
  applied       \* the rules that run has applied so far, in order

vars ==
  <<document, pc, i, textEdits, sourceLine, called, returned,
    linePc, input, applied>>

docVars == <<document, pc, i, textEdits>>

lineVars == <<sourceLine, called, returned>>

pipeVars == <<linePc, input, applied>>

\* ------------------------------------------------------------------------
\* provideDocumentFormattingEdits
\* ------------------------------------------------------------------------

\* new vscode.Position(line, character)
Position(line, character) == [line |-> line, character |-> character]

\* new vscode.Range(start, end)
Range(start, end) == [start |-> start, end |-> end]

\* new vscode.TextEdit(range, newText)
TextEdit(range, newText) == [range |-> range, newText |-> newText]

\* document.lineCount
lineCount(doc) == Len(doc)

\* document.lineAt(n), n counted from 0
lineAt(doc, n) == doc[n + 1]

\* The body of the for loop with the range ending at trimmedLine.length.
EditOfLineTrimmedEnd(doc, n) ==
  LET line == doc[n + 1]
      trimmedLine == trimRight(line.text)
  IN [range |-> [start |-> [line |-> n, character |-> 0],
                 end |-> [line |-> n, character |-> Len(trimmedLine)]],
      newText |-> formatLine(trimmedLine)]

\* The body of the for loop for the line n.
EditOfLine(doc, n) ==
  LET line == lineAt(doc, n)
      trimmedLine == trimRight(line.text)
      formattedLine == formatLine(trimmedLine)
      startPos == Position(n, 0)
      endPos == Position(n, Len(line.text))
  IN TextEdit(Range(startPos, endPos), formattedLine)

\* The editor asks for the edits: textEdits = [], i = 0.
Enter ==
  /\ pc = "idle"
  /\ pc' = "loop"
  /\ i' = 0
  /\ textEdits' = <<>>
  /\ UNCHANGED <<document, lineVars, pipeVars>>

\* One iteration: i < document.lineCount, textEdits.push(textEdit), i++.
\* line.text is a string, so line.text.trimRight() is a call that returns.
Iterate ==
  /\ pc = "loop"
  /\ i < lineCount(document)
  /\ lineAt(document, i).text # null
  /\ textEdits' = Append(textEdits, EditOfLine(document, i))
  /\ i' = i + 1
  /\ UNCHANGED <<document, pc, lineVars, pipeVars>>

\* An iteration on a line whose text is null: line.text.trimRight() reads a
\* property of null, which throws a TypeError.  Nothing catches it, so it
\* leaves provideDocumentFormattingEdits: no array is returned.
Throw ==
  /\ pc = "loop"
  /\ i < lineCount(document)
  /\ lineAt(document, i).text = null
  /\ pc' = "thrown"
  /\ UNCHANGED <<document, i, textEdits, lineVars, pipeVars>>

\* The loop is over: return textEdits.
Return ==
  /\ pc = "loop"
  /\ ~(i < lineCount(document))
  /\ pc' = "returned"
  /\ UNCHANGED <<document, i, textEdits, lineVars, pipeVars>>

Init ==
  /\ document \in Documents
  /\ pc = "idle"
  /\ i = 0
  /\ textEdits = <<>>
  /\ sourceLine = <<>>
  /\ called = "none"
  /\ returned = <<>>
  /\ linePc = "idle"
  /\ input = <<>>
  /\ applied = <<>>

Next == Enter \/ Iterate \/ Return

Spec == Init /\ [][Next]_vars

\* The same method called with a document whose lines may have no text.
NullableInit ==
  /\ document \in NullableDocuments
  /\ pc = "idle"
  /\ i = 0
  /\ textEdits = <<>>
  /\ sourceLine = <<>>
  /\ called = "none"
  /\ returned = <<>>
  /\ linePc = "idle"
  /\ input = <<>>
  /\ applied = <<>>

NullableNext == Enter \/ Iterate \/ Throw \/ Return

NullableSpec == NullableInit /\ [][NullableNext]_vars

\* ------------------------------------------------------------------------
\* Direct calls of the formatter's methods on one line
\* ------------------------------------------------------------------------

LineInit ==
  /\ sourceLine \in Lines
  /\ called = "none"
  /\ returned = <<>>
  /\ document = <<>>
  /\ pc = "idle"
  /\ i = 0
  /\ textEdits = <<>>
  /\ linePc = "idle"
  /\ input = <<>>
  /\ applied = <<>>

Call(name, value) ==
  /\ called = "none"
  /\ called' = name
  /\ returned' = value
  /\ UNCHANGED <<sourceLine, docVars, pipeVars>>

CallFormatLine == Call("formatLine", formatLine(sourceLine))

CallFormatSectionHeaders ==
  Call("formatSectionHeaders", formatSectionHeaders(sourceLine))

CallFormatTriggers == Call("formatTriggers", formatTriggers(sourceLine))

CallFormatScopedAssignments ==
  Call("formatScopedAssignments", formatScopedAssignments(sourceLine))

CallFormatAssignmentKeywords ==
  Call("formatAssignmentKeywords", formatAssignmentKeywords(sourceLine))

CallFormatControlKeywords ==
  Call("formatControlKeywords", formatControlKeywords(sourceLine))

CallFormatCommandCalls ==
  Call("formatCommandCalls", formatCommandCalls(sourceLine))

LineNext ==
  \/ CallFormatLine
  \/ CallFormatSectionHeaders
  \/ CallFormatTriggers
  \/ CallFormatScopedAssignments
  \/ CallFormatAssignmentKeywords
  \/ CallFormatControlKeywords
  \/ CallFormatCommandCalls

LineSpec == LineInit /\ [][LineNext]_vars

\* ------------------------------------------------------------------------
\* formatLine, statement by statement
\* ------------------------------------------------------------------------

\* The statement that follows the call of a rule in the body of formatLine.
\* This one has the scoped assignments formatted before the triggers.
RuleAfterScopedFirst(rule) ==
  CASE rule = "formatSectionHeaders" -> "formatScopedAssignments"
    [] rule = "formatScopedAssignments" -> "formatTriggers"
    [] rule = "formatTriggers" -> "formatAssignmentKeywords"
    [] rule = "formatAssignmentKeywords" -> "formatControlKeywords"
    [] rule = "formatControlKeywords" -> "formatCommandCalls"
    [] rule = "formatCommandCalls" -> "return"

\* The statement that follows the call of a rule in the body of formatLine.
RuleAfter(rule) ==
  CASE rule = "formatSectionHeaders" -> "formatTriggers"
    [] rule = "formatTriggers" -> "formatScopedAssignments"
    [] rule = "formatScopedAssignments" -> "formatAssignmentKeywords"
    [] rule = "formatAssignmentKeywords" -> "formatControlKeywords"
    [] rule = "formatControlKeywords" -> "formatCommandCalls"
    [] rule = "formatCommandCalls" -> "return"

\* formatLine(sourceLine) is called.
PipeInit ==
  /\ sourceLine \in Lines
  /\ input = sourceLine
  /\ linePc = "isCommentLine"
  /\ applied = <<>>
  /\ called = "none"
  /\ returned = <<>>
  /\ document = <<>>
  /\ pc = "idle"
  /\ i = 0
  /\ textEdits = <<>>

\* if (this.isCommentLine(sourceLine)) { return sourceLine; }
CheckComment ==
  /\ linePc = "isCommentLine"
  /\ IF isCommentLine(sourceLine)
       THEN linePc' = "returned" /\ returned' = sourceLine
       ELSE linePc' = "formatSectionHeaders" /\ UNCHANGED returned
  /\ UNCHANGED <<sourceLine, called, input, applied, docVars>>

\* sourceLine = this.<rule>(sourceLine);
Apply(rule, value) ==
  /\ linePc = rule
  /\ sourceLine' = value
  /\ applied' = Append(applied, rule)
  /\ linePc' = RuleAfter(rule)
  /\ UNCHANGED <<called, returned, input, docVars>>

ApplySectionHeaders ==
  Apply("formatSectionHeaders", formatSectionHeaders(sourceLine))

ApplyTriggers == Apply("formatTriggers", formatTriggers(sourceLine))

ApplyScopedAssignments ==
  Apply("formatScopedAssignments", formatScopedAssignments(sourceLine))

ApplyAssignmentKeywords ==
  Apply("formatAssignmentKeywords", formatAssignmentKeywords(sourceLine))

ApplyControlKeywords ==
  Apply("formatControlKeywords", formatControlKeywords(sourceLine))

ApplyCommandCalls ==
  Apply("formatCommandCalls", formatCommandCalls(sourceLine))

\* return sourceLine;
ReturnLine ==
  /\ linePc = "return"
  /\ linePc' = "returned"
  /\ returned' = sourceLine
  /\ UNCHANGED <<sourceLine, called, input, applied, docVars>>

PipeNext ==
  \/ CheckComment
  \/ ApplySectionHeaders
  \/ ApplyTriggers
  \/ ApplyScopedAssignments
  \/ ApplyAssignmentKeywords
  \/ ApplyControlKeywords
  \/ ApplyCommandCalls
  \/ ReturnLine

PipeSpec == PipeInit /\ [][PipeNext]_vars


\* ------------------------------------------------------------------------
\* Properties
\* ------------------------------------------------------------------------

\* Two lines that differ in nothing but the case of letters.
SameUpToCase(a, b) ==
  /\ Len(a) = Len(b)
  /\ \A k \in 1..Len(a) : UpperChar(a[k]) = UpperChar(b[k])

\* Has the direct call of the method name returned?
Returned(name) == called = name

\* The lengths w of the leading runs W of characters of cls that s has.
LeadingRuns(s, cls) == {w \in 0..Len(s) : \A q \in 1..w : s[q] \in cls}

\* Does "//" follow the leading white space of s?
CommentText(s) ==
  \E w \in LeadingRuns(s, WhiteSpace) :
    w + 2 <= Len(s) /\ s[w + 1] = "/" /\ s[w + 2] = "/"

\* s without its trailing white space.
WithoutTrailingSpace(s) ==
  CHOOSE t \in {SubSeq(s, 1, n) : n \in 0..Len(s)} :
    /\ \A q \in (Len(t) + 1)..Len(s) : s[q] \in WhiteSpace
    /\ (t = <<>> \/ t[Len(t)] \notin WhiteSpace)

\* C1: formatting a formatted line changes nothing:
\* formatLine(formatLine(L)) = formatLine(L) for every line L.
Idempotence == Returned("formatLine") => formatLine(returned) = returned

\* C1 witness: a first pass that removed leading white space and upper-cased
\* a keyword.
IdempotenceWitness ==
  /\ Returned("formatLine")
  /\ IsSpaceAt(sourceLine, 1)
  /\ Len(returned) < Len(sourceLine)
  /\ ~SameUpToCase(returned, sourceLine)

\* C2: a non-comment line without trailing white space keeps its length and,
\* at every position, its character up to letter case.
CaseOnlyTransform ==
  (/\ Returned("formatLine")
   /\ ~CommentText(sourceLine)
   /\ sourceLine = WithoutTrailingSpace(sourceLine))
  => SameUpToCase(returned, sourceLine)

\* C3 as claimed: formatLine returns a comment line with its trailing white
\* space removed.
CommentInvarianceTrimmed ==
  (Returned("formatLine") /\ CommentText(sourceLine))
  => returned = WithoutTrailingSpace(sourceLine)

\* C3 as amended: formatLine returns a comment line as it is, character for
\* character: nothing is upper-cased, leading and trailing white space stay.
CommentInvariance ==
  (Returned("formatLine") /\ CommentText(sourceLine))
  => returned = sourceLine

\* C3 witness: a comment with trailing white space that holds a trigger.
CommentInvarianceWitness ==
  /\ Returned("formatLine")
  /\ CommentText(sourceLine)
  /\ sourceLine # WithoutTrailingSpace(sourceLine)
  /\ formatTriggers(sourceLine) # sourceLine


\* C4: the returned array holds one edit per line, in line order; the edit
\* of line n spans (n, 0) to (n, length of the untrimmed text) and replaces
\* it by formatLine of the text without its trailing white space.
EditCompleteness ==
  pc = "returned" =>
    /\ Len(textEdits) = Len(document)
    /\ \A n \in 0..(Len(document) - 1) :
         LET edit == textEdits[n + 1]
             text == document[n + 1].text
         IN /\ edit.range.start = [line |-> n, character |-> 0]
            /\ edit.range.end = [line |-> n, character |-> Len(text)]
            /\ edit.newText = formatLine(WithoutTrailingSpace(text))

\* C4 witness: the edits of a document of two lines or more are returned,
\* one of them replaces a line by itself, another one drops trailing white
\* space and upper-cases a keyword.
EditCompletenessWitness ==
  /\ pc = "returned"
  /\ Len(document) >= 2
  /\ \E k \in 1..Len(textEdits) :
       document[k].text # <<>> /\ textEdits[k].newText = document[k].text
  /\ \E k \in 1..Len(textEdits) :
       /\ Len(textEdits[k].newText) < textEdits[k].range.end.character
       /\ textEdits[k].newText # WithoutTrailingSpace(document[k].text)

\* Is s = W + K + R with Len(W) = w and K a spelling of kw in any case?
KeywordAfter(s, w, kw) == MatchLit(s, w + 1, kw)

\* s with the keyword kw that follows its first w characters in upper case.
WithUpperKeyword(s, w, kw) ==
  Slice(s, 1, w) \o toUpperCase(kw) \o Slice(s, w + Len(kw) + 1, Len(s))

\* C5: formatLine(W + K + "=" + V) = W + uppercase(K) + "=" + V for every
\* assignment keyword K, run W of blanks and tabs and value V; and the
\* assignment rule leaves W + K + R alone when R does not start with "=".
AssignmentKeepsIndentAndValue ==
  \A n \in 1..Len(VarsKeywords) :
    \A w \in LeadingRuns(sourceLine, BlankOrTab) :
      LET K == VarsKeywords[n]
          r == w + Len(K) + 1
          assigned == r <= Len(sourceLine) /\ sourceLine[r] = "="
      IN KeywordAfter(sourceLine, w, K) =>
           /\ (Returned("formatLine") /\ assigned)
                => returned = WithUpperKeyword(sourceLine, w, K)
           /\ (Returned("formatAssignmentKeywords") /\ ~assigned)
                => returned = sourceLine

\* C6: formatScopedAssignments(W + P + R) = W + uppercase(P) + R when R
\* starts with "." or "=", and W + P + R itself when R is empty or starts
\* with another character.
ScopedPrefixOnly ==
  Returned("formatScopedAssignments") =>
    \A n \in 1..Len(ScopedVarPrefixes) :
      \A w \in LeadingRuns(sourceLine, WhiteSpace) :
        LET P == ScopedVarPrefixes[n]
            r == w + Len(P) + 1
        IN KeywordAfter(sourceLine, w, P) =>
             IF r <= Len(sourceLine) /\ sourceLine[r] \in {".", "="}
               THEN returned = WithUpperKeyword(sourceLine, w, P)
               ELSE returned = sourceLine

\* C6 witness: an indented scoped assignment in lower case was rewritten.
ScopedPrefixOnlyWitness ==
  /\ Returned("formatScopedAssignments")
  /\ IsSpaceAt(sourceLine, 1)
  /\ returned # sourceLine

\* The section header shape  W1 [ name rest ] W2 : the positions of "[",
\* of the last character of name and of "]", as a set of triples.
HeaderShapes(s) ==
  {sh \in (1..Len(s)) \X (1..Len(s)) \X (1..Len(s)) :
     /\ (sh[1] - 1) \in LeadingRuns(s, WhiteSpace)
     /\ s[sh[1]] = "["
     /\ sh[1] < sh[2] /\ sh[2] < sh[3]
     /\ \A q \in (sh[1] + 1)..sh[2] : s[q] \in WordChars
     /\ (sh[2] + 1 = sh[3] \/ s[sh[2] + 1] \in WhiteSpace)
     /\ s[sh[3]] = "]"
     /\ \A q \in (sh[3] + 1)..Len(s) : s[q] \in WhiteSpace}

\* C7: formatSectionHeaders changes a section header in nothing but the
\* case of its name (W1, the text after the name and W2 stay), and returns
\* every other line as it is.
SectionHeaderNameOnly ==
  Returned("formatSectionHeaders") =>
    /\ \A sh \in HeaderShapes(sourceLine) :
         returned = UpperRange(sourceLine, sh[1] + 1, sh[2])
    /\ HeaderShapes(sourceLine) = {} => returned = sourceLine

\* Does a trigger, "on=@" and a name, start at p behind a word boundary?
TriggerAt(s, p) ==
  /\ MatchLit(s, p, TriggerHead)
  /\ (p = 1 \/ s[p - 1] \notin WordChars)
  /\ IsWordAt(s, p + Len(TriggerHead))

\* Does a comment-introducing "//" start at q?
CommentAt(s, q) ==
  q >= 1 /\ q + 1 <= Len(s) /\ s[q] = "/" /\ s[q + 1] = "/"

\* The last position of the trigger that starts at p: its name and the
\* non-space characters behind it, up to a comment-introducing "//".
TriggerReach(s, p) ==
  LET from == p + Len(TriggerHead) + RunLen(s, p + Len(TriggerHead), WordChars)
      stops == {q \in from..Len(s) : s[q] \in WhiteSpace \/ CommentAt(s, q)}
  IN IF stops = {} THEN Len(s)
     ELSE (CHOOSE q \in stops : \A r \in stops : q <= r) - 1

\* Does every "/" of s belong to a "//"?
SlashesArePaired(s) ==
  \A q \in 1..Len(s) : s[q] = "/" => (CommentAt(s, q) \/ CommentAt(s, q - 1))

\* C8: formatTriggers upper-cases every trigger of a non-comment line, up
\* to the white space or the "//" that ends it, and changes nothing else
\* (stated for the lines whose slashes all belong to a "//").
TriggersUppercased ==
  (/\ Returned("formatTriggers")
   /\ ~CommentText(sourceLine)
   /\ SlashesArePaired(sourceLine)) =>
    returned =
      [k \in 1..Len(sourceLine) |->
         IF \E p \in 1..k : TriggerAt(sourceLine, p) /\ k <= TriggerReach(sourceLine, p)
           THEN UpperChar(sourceLine[k])
           ELSE sourceLine[k]]

\* Is a..b a whole word of s that spells a command keyword in any case and
\* is followed by white space, "(" or the end of the line?
CommandWord(s, a, b) ==
  /\ a <= b
  /\ \A q \in a..b : s[q] \in WordChars
  /\ (a = 1 \/ s[a - 1] \notin WordChars)
  /\ (b = Len(s) \/ s[b + 1] \notin WordChars)
  /\ \E n \in 1..Len(commandKeywords) :
       SameUpToCase(SubSeq(s, a, b), commandKeywords[n])
  /\ (b = Len(s) \/ s[b + 1] \in WhiteSpace \cup {"("})

\* C9: formatCommandCalls upper-cases the whole-word occurrences of the
\* command keywords that white space, "(" or the end of the line follows,
\* and changes no other character.
CommandsUppercased ==
  Returned("formatCommandCalls") =>
    returned =
      [k \in 1..Len(sourceLine) |->
         IF \E a \in 1..k : \E b \in k..Len(sourceLine) : CommandWord(sourceLine, a, b)
           THEN UpperChar(sourceLine[k])
           ELSE sourceLine[k]]

\* C9 witness: an indented command in mixed case was upper-cased.
CommandsUppercasedWitness ==
  /\ Returned("formatCommandCalls")
  /\ IsSpaceAt(sourceLine, 1)
  /\ returned # sourceLine

\* The control keywords that start the line s behind w white-space
\* characters and end at a word boundary.
ControlWordsAt(s, w) ==
  {n \in 1..Len(ControlKeywords) :
     LET r == w + Len(ControlKeywords[n]) + 1
     IN /\ KeywordAfter(s, w, ControlKeywords[n])
        /\ (r > Len(s) \/ s[r] \notin WordChars)}

\* C10: formatControlKeywords(W + K + R) = W + uppercase(K) + R when the
\* control keyword K ends at a word boundary; a line that starts (behind
\* its white space) with no such keyword is returned as it is.
ControlKeywordOnly ==
  Returned("formatControlKeywords") =>
    /\ \A w \in LeadingRuns(sourceLine, WhiteSpace) :
         \A n \in ControlWordsAt(sourceLine, w) :
           returned = WithUpperKeyword(sourceLine, w, ControlKeywords[n])
    /\ (\A w \in LeadingRuns(sourceLine, WhiteSpace) : ControlWordsAt(sourceLine, w) = {})
         => returned = sourceLine

\* C10 witness: an indented control keyword with a remainder was rewritten.
ControlKeywordOnlyWitness ==
  /\ Returned("formatControlKeywords")
  /\ IsSpaceAt(sourceLine, 1)
  /\ returned # sourceLine
  /\ returned # toUpperCase(sourceLine)

\* C11: a line whose text is null is treated as the empty line: no error is
\* raised, and the returned array holds the edit of every line, the one of
\* a null line replacing it by the empty text.
AbsentTextIsEmptyLine ==
  /\ pc # "thrown"
  /\ pc = "returned" =>
       /\ Len(textEdits) = Len(document)
       /\ \A k \in 1..Len(document) :
            IF document[k].text = null
              THEN textEdits[k].newText = <<>>
              ELSE textEdits[k].newText =
                     formatLine(WithoutTrailingSpace(document[k].text))

\* The rules in the order the claim gives them.
ClaimedOrder ==
  <<"formatSectionHeaders", "formatTriggers", "formatScopedAssignments",
    "formatAssignmentKeywords", "formatControlKeywords", "formatCommandCalls">>

\* Is a the sequence of the first Len(a) members of b?
IsPrefix(a, b) == Len(a) <= Len(b) /\ \A k \in 1..Len(a) : a[k] = b[k]

\* C12: the rules run in the order section, trigger, scoped, assignment,
\* control, command, each once and on the previous rule's output, on every
\* line that is no comment; on a comment line no rule runs; whether the
\* line is a comment is decided on the input line alone.
FixedRuleOrder ==
  /\ IsPrefix(applied, ClaimedOrder)
  /\ CommentText(input) => applied = <<>>
  /\ linePc = "returned" =>
       IF CommentText(input)
         THEN returned = input
         ELSE /\ applied = ClaimedOrder
              /\ returned =
                   formatCommandCalls(
                     formatControlKeywords(
                       formatAssignmentKeywords(
                         formatScopedAssignments(
                           formatTriggers(
                             formatSectionHeaders(input))))))

\* C12 witness: a run on a line that is no comment has returned, and both
\* the trigger rule and the command rule had something to rewrite.
FixedRuleOrderWitness ==
  /\ linePc = "returned"
  /\ ~CommentText(input)
  /\ applied = ClaimedOrder
  /\ formatTriggers(input) # input
  /\ formatCommandCalls(input) # input
  /\ returned # formatTriggers(input)
  /\ returned # formatCommandCalls(input)

\* The positions behind the first character where a "//" starts.
TrailingComments(s) == {q \in 2..Len(s) : CommentAt(s, q)}

\* The last n characters of s.
LastChars(s, n) == SubSeq(s, Len(s) - n + 1, Len(s))

\* C13: a comment that trails code is left untouched: when the line is no
\* comment line and a "//" starts at q, formatLine returns a line that
\* ends with the characters q..end of the line, unchanged, whatever the
\* comment text holds.
TrailingCommentUntouched ==
  (Returned("formatLine") /\ ~CommentText(sourceLine)) =>
    \A q \in TrailingComments(sourceLine) :
      LET n == Len(sourceLine) - q + 1
      IN /\ Len(returned) >= n
         /\ LastChars(returned, n) = LastChars(sourceLine, n)

\* C14: the variant whose rules test for a comment themselves returns what
\* formatLine returns, for every line; and inside the pipeline no rule is
\* ever handed a comment line, so none of those tests is taken.
VariantEquivalence ==
  /\ linePc \in {ClaimedOrder[k] : k \in 1..Len(ClaimedOrder)}
       => ~CommentText(sourceLine)
  /\ linePc = "returned" => returned = variantFormatLine(input)

\* C14 witness: formatLine has returned a rewritten line that is no comment
\* line but has a "//" in it.
VariantEquivalenceWitness ==
  /\ linePc = "returned"
  /\ ~CommentText(input)
  /\ \E q \in 1..Len(input) : CommentAt(input, q)
  /\ returned # input

\* s without its leading and its trailing white space.
WithoutOuterSpace(s) ==
  LET t == WithoutTrailingSpace(s)
      lead == CHOOSE w \in LeadingRuns(t, WhiteSpace) :
                \A v \in LeadingRuns(t, WhiteSpace) : v <= w
  IN Slice(t, lead + 1, Len(t))

\* C15: formatLine changes nothing but the case of letters and the outer
\* white space: uppercase(trim(formatLine(L))) = uppercase(trim(L)), and
\* formatLine(L) is no longer than L.
OnlyCaseAndOuterSpace ==
  linePc = "returned" =>
    /\ toUpperCase(WithoutOuterSpace(returned)) =
         toUpperCase(WithoutOuterSpace(input))
    /\ Len(returned) <= Len(input)

\* C15 witness: formatLine returned a shorter line with a letter of the
\* remaining text upper-cased.
OnlyCaseAndOuterSpaceWitness ==
  /\ linePc = "returned"
  /\ Len(returned) < Len(input)
  /\ returned # <<>>
  /\ returned # LastChars(input, Len(returned))

====
